---- MODULE Spec2Model ----
(***************************************************************************)
(* Model of profiler.py: the sampling profiler that polls a Spring Boot    *)
(* actuator thread-dump endpoint and aggregates the observed stack frames. *)
(*                                                                         *)
(* Python strings that the code takes apart (split, startswith, f-string   *)
(* concatenation) are sequences of one-character strings.  JSON objects    *)
(* are records carrying the set `has` of the keys that are present, so     *)
(* that a missing key (KeyError) is a state of the data.  A Python call    *)
(* that may raise yields [exc, val]: exc = "none" and the value, or the    *)
(* name of the exception.                                                  *)
(***************************************************************************)
EXTENDS Integers, Sequences, FiniteSets, TLC

VARIABLES
    pc,              \* position of __main__ / sample_thread_dumps
    samples,         \* config['samples']
    min_interval,    \* config['min_interval']
    max_interval,    \* config['max_interval']
    package_filter,  \* config['package_filter'] / parameter of extract
    method_filter,   \* config['method_filter'] / parameter of filter, extract
    sample,          \* loop variable of line 132
    method_counts,   \* Counter, line 129
    depth_sums,      \* defaultdict(int), line 130
    depth_counts,    \* Counter, line 131
    combined_data,   \* list returned by sample_thread_dumps
    report,          \* rows written by write_combined_report
    waits,           \* number of completed time.sleep calls
    fetches,         \* number of get_thread_dump calls
    fetched,         \* what the last fetch met: failure, malformed, wellformed
    exc,             \* exception that ended the run, "none" otherwise
    called,          \* which function the direct call applied
    stack_trace,     \* argument of a direct filter_stack_trace call
    thread_dump,     \* argument of a direct extract_methods_with_depth call
    ret              \* result of the direct call

vars == <<pc, samples, min_interval, max_interval, package_filter,
          method_filter, sample, method_counts, depth_sums, depth_counts,
          combined_data, report, waits, fetches, fetched, exc,
          called, stack_trace, thread_dump, ret>>

samplerVars == <<pc, samples, min_interval, max_interval, sample,
                 method_counts, depth_sums, depth_counts, combined_data,
                 report, waits, fetches, fetched, exc>>

callVars == <<called, stack_trace, thread_dump, ret>>

-----------------------------------------------------------------------------
(* Bounds *)

MaxStackLen == 3
MaxThreads == 2
MaxFrames == 3
MaxSamples == 2
SampleFrames == 2

-----------------------------------------------------------------------------
(* Values *)

\* Python None where a string is expected: distinct from every string
None == <<"None">>

\* Python None where a parsed JSON value is expected
Null == [type |-> "null", has |-> {}, threads |-> <<>>]

Ok(v) == [exc |-> "none", val |-> v]

Raise(e) == [exc |-> e, val |-> <<>>]

Has(obj, key) == key \in obj.has

RUNNABLE == "RUNNABLE"

ThreadStates == {RUNNABLE, "WAITING"}

Frame(c, m) ==
    [has |-> {"className", "methodName"}, className |-> c, methodName |-> m]

Thread(st, st_trace) ==
    [has |-> {"threadState", "stackTrace"}, threadState |-> st,
     stackTrace |-> st_trace]

Dump(ths) == [type |-> "object", has |-> {"threads"}, threads |-> ths]

A == <<"A">>
B == <<"B">>
C == <<"C">>
foo == <<"f", "o", "o">>
bar == <<"b", "a", "r">>
baz == <<"b", "a", "z">>

Frames == {Frame(A, foo), Frame(B, bar), Frame(A, baz)}

Marker(c, m) == c \o <<"#">> \o m

-----------------------------------------------------------------------------
(* Pure functions of the source *)

RECURSIVE split(_, _, _)
\* str.split(sep): cur is the part being collected
split(s, sep, cur) ==
    IF s = <<>> THEN <<cur>>
    ELSE IF Head(s) = sep THEN <<cur>> \o split(Tail(s), sep, <<>>)
    ELSE split(Tail(s), sep, Append(cur, Head(s)))

\* str.startswith(prefix)
startswith(s, prefix) ==
    /\ Len(prefix) <= Len(s)
    /\ SubSeq(s, 1, Len(prefix)) = prefix

\* the reversal of line 93 left out
reversed_none(s) == s

RECURSIVE reversed(_)
reversed(s) ==
    IF s = <<>> THEN <<>> ELSE Append(reversed(Tail(s)), Head(s))

\* the scan without its break: the last matching frame wins
find_start_last(st_trace, depth, class_name_filter, method_name_filter) ==
    LET hits == {i \in DOMAIN st_trace :
                    /\ i > depth
                    /\ st_trace[i].className = class_name_filter
                    /\ st_trace[i].methodName = method_name_filter}
    IN IF hits = {} THEN Ok(-1)
       ELSE Ok((CHOOSE i \in hits : \A j \in hits : j <= i) - 1)

RECURSIVE find_start(_, _, _, _)
\* the scan of filter_stack_trace; depth counts from 0, -1 is start_depth None
find_start(st_trace, depth, class_name_filter, method_name_filter) ==
    IF depth >= Len(st_trace) THEN Ok(-1)
    ELSE LET stack_frame == st_trace[depth + 1] IN
         IF ~Has(stack_frame, "className") THEN Raise("KeyError")
         ELSE IF stack_frame.className # class_name_filter
              THEN find_start(st_trace, depth + 1, class_name_filter,
                              method_name_filter)
         ELSE IF ~Has(stack_frame, "methodName") THEN Raise("KeyError")
         ELSE IF stack_frame.methodName = method_name_filter THEN Ok(depth)
         ELSE find_start(st_trace, depth + 1, class_name_filter,
                         method_name_filter)

filter_stack_trace(st_trace, m_filter) ==
    IF m_filter = None \/ m_filter = <<>> THEN Ok(st_trace)
    ELSE LET parts == split(m_filter, "#", <<>>) IN
         IF Len(parts) # 2 THEN Raise("ValueError(split)")
         ELSE LET start_depth == find_start(st_trace, 0, parts[1], parts[2]) IN
              IF start_depth.exc # "none" THEN Raise(start_depth.exc)
              ELSE IF start_depth.val = -1 THEN Ok(<<>>)
              ELSE Ok(SubSeq(st_trace, start_depth.val + 1, Len(st_trace)))

RECURSIVE extract_frames(_, _, _, _, _)
\* the inner loop of extract_methods_with_depth, from position depth on
extract_frames(filtered, depth, p_filter, thread_state, acc) ==
    IF depth >= Len(filtered) THEN Ok(acc)
    ELSE LET stack_frame == filtered[depth + 1] IN
         IF ~Has(stack_frame, "className") THEN Raise("KeyError")
         ELSE IF ~startswith(stack_frame.className, p_filter)
              THEN extract_frames(filtered, depth + 1, p_filter,
                                  thread_state, acc)
         ELSE IF ~Has(stack_frame, "methodName") THEN Raise("KeyError")
         ELSE extract_frames(filtered, depth + 1, p_filter, thread_state,
                  Append(acc, <<stack_frame.className \o <<".">>
                                    \o stack_frame.methodName,
                                depth, thread_state>>))

\* the loop body without the test of line 92
extract_thread_anystate(thread, p_filter, m_filter, acc) ==
    LET filtered == filter_stack_trace(reversed(thread.stackTrace),
                                       m_filter) IN
    IF filtered.exc # "none" THEN Raise(filtered.exc)
    ELSE extract_frames(filtered.val, 0, p_filter, thread.threadState, acc)

\* the body of the loop over threads, for one thread
extract_thread(thread, p_filter, m_filter, acc) ==
    IF ~Has(thread, "threadState") THEN Raise("KeyError")
    ELSE IF thread.threadState # RUNNABLE THEN Ok(acc)
    ELSE IF ~Has(thread, "stackTrace") THEN Raise("KeyError")
    ELSE LET filtered == filter_stack_trace(reversed(thread.stackTrace),
                                            m_filter) IN
         IF filtered.exc # "none" THEN Raise(filtered.exc)
         ELSE extract_frames(filtered.val, 0, p_filter, thread.threadState,
                             acc)

RECURSIVE extract_threads(_, _, _, _)
extract_threads(ths, p_filter, m_filter, acc) ==
    IF ths = <<>> THEN Ok(acc)
    ELSE LET r == extract_thread(Head(ths), p_filter, m_filter, acc) IN
         IF r.exc # "none" THEN r
         ELSE extract_threads(Tail(ths), p_filter, m_filter, r.val)

extract_methods_with_depth(t_dump, p_filter, m_filter) ==
    IF ~Has(t_dump, "threads") THEN Raise("KeyError")
    ELSE extract_threads(t_dump.threads, p_filter, m_filter, <<>>)

-----------------------------------------------------------------------------
(* Inputs *)

RECURSIVE SeqsOfLen(_, _)
SeqsOfLen(S, n) ==
    IF n = 0 THEN {<<>>}
    ELSE {Append(s, x) : s \in SeqsOfLen(S, n - 1), x \in S}

SeqsUpTo(S, n) == UNION {SeqsOfLen(S, k) : k \in 0..n}

RECURSIVE ThreadLists(_, _)
\* at most k threads holding at most f frames in all
ThreadLists(k, f) ==
    IF k = 0 THEN {<<>>}
    ELSE {<<>>} \cup
         UNION {{<<Thread(st, s)>> \o rest :
                     rest \in ThreadLists(k - 1, f - Len(s))} :
                st \in ThreadStates, s \in SeqsUpTo(Frames, f)}

Stacks == SeqsUpTo(Frames, MaxStackLen)

Dumps == {Dump(ths) : ths \in ThreadLists(MaxThreads, MaxFrames)}

WellFormedMarkers ==
    {Marker(A, foo), Marker(B, bar), Marker(A, baz), Marker(A, bar),
     Marker(C, foo)}

MalformedMarkers == {B \o bar, Marker(B, bar) \o <<"#">>}

Markers == {None, <<>>} \cup WellFormedMarkers \cup MalformedMarkers

Prefixes == {<<>>, A, B}

-----------------------------------------------------------------------------
(* Direct calls of the pure functions *)

IdleSampler ==
    /\ pc = "NotStarted"
    /\ samples = 0
    /\ min_interval = 0
    /\ max_interval = 0
    /\ sample = 0
    /\ method_counts = <<>>
    /\ depth_sums = <<>>
    /\ depth_counts = <<>>
    /\ combined_data = <<>>
    /\ report = <<>>
    /\ waits = 0
    /\ fetches = 0
    /\ fetched = "none"
    /\ exc = "none"

InitFilter ==
    /\ IdleSampler
    /\ called = "none"
    /\ stack_trace \in Stacks
    /\ thread_dump = Null
    /\ package_filter = <<>>
    /\ method_filter \in Markers
    /\ ret = Ok(<<>>)

CallFilter ==
    /\ called = "none"
    /\ called' = "filter_stack_trace"
    /\ ret' = filter_stack_trace(stack_trace, method_filter)
    /\ UNCHANGED <<samplerVars, package_filter, method_filter, stack_trace,
                   thread_dump>>

NextFilter == CallFilter

SpecFilter == InitFilter /\ [][NextFilter]_vars

InitExtract ==
    /\ IdleSampler
    /\ called = "none"
    /\ stack_trace = <<>>
    /\ thread_dump \in Dumps
    /\ package_filter \in Prefixes
    /\ method_filter \in {None, Marker(B, bar), Marker(A, foo), B \o bar}
    /\ ret = Ok(<<>>)

CallExtract ==
    /\ called = "none"
    /\ called' = "extract_methods_with_depth"
    /\ ret' = extract_methods_with_depth(thread_dump, package_filter,
                                         method_filter)
    /\ UNCHANGED <<samplerVars, package_filter, method_filter, stack_trace,
                   thread_dump>>

NextExtract == CallExtract

SpecExtract == InitExtract /\ [][NextExtract]_vars

-----------------------------------------------------------------------------
(* Python dict, Counter and defaultdict(int): a sequence of <<key, value>>  *)
(* pairs in insertion order                                                 *)

Keys(d) == {d[i][1] : i \in DOMAIN d}

\* d[k] of a Counter or defaultdict(int): 0 for a key that is not there
Get(d, k) ==
    IF k \in Keys(d) THEN d[CHOOSE i \in DOMAIN d : d[i][1] = k][2] ELSE 0

Put(d, k, v) ==
    IF k \in Keys(d)
    THEN [i \in DOMAIN d |-> IF d[i][1] = k THEN <<k, v>> ELSE d[i]]
    ELSE Append(d, <<k, v>>)

-----------------------------------------------------------------------------
(* The sampling session *)

\* what requests.get / raise_for_status / response.json() can meet
EmptyDict == [type |-> "object", has |-> {}, threads |-> <<>>]

NoThreadsDict == [type |-> "object", has |-> {"status"}, threads |-> <<>>]

BadFrameDump ==
    Dump(<<Thread(RUNNABLE,
                  <<[has |-> {"className"}, className |-> A,
                     methodName |-> <<>>]>>)>>)

\* the sampled dumps hold one thread; dumps of several threads are the
\* inputs of SpecExtract
SampleBodies ==
    {Dump(ths) : ths \in ThreadLists(1, SampleFrames)}
        \cup {Null, EmptyDict, NoThreadsDict, BadFrameDump}

Responses ==
    {[error |-> "none", json |-> b] : b \in SampleBodies}
        \cup {[error |-> "HTTPError", json |-> b] :
                 b \in {NoThreadsDict,
                        Dump(<<Thread(RUNNABLE, <<Frame(A, foo)>>)>>)}}
        \cup {[error |-> "ConnectionError", json |-> Null],
              [error |-> "JSONDecodeError", json |-> Null]}

Intervals == {<<0, 1>>, <<1, 1>>, <<-1, 0>>, <<1, 0>>}

\* get_thread_dump without raise_for_status: the body of an error answer
\* is parsed and returned
get_thread_dump_noraise(response) ==
    IF response.error \in {"ConnectionError", "JSONDecodeError"}
    THEN Null ELSE response.json

get_thread_dump(response) ==
    IF response.error # "none" THEN Null ELSE response.json

\* `if thread_dump:` -- None and the empty dict are false
Truthy(v) == v.type = "object" /\ v.has # {}

\* the shape {threads: [{threadState, stackTrace: [{className, methodName}]}]}
WellFormed(body) ==
    /\ body.type = "object"
    /\ Has(body, "threads")
    /\ \A i \in DOMAIN body.threads :
          LET thread == body.threads[i] IN
          /\ Has(thread, "threadState")
          /\ Has(thread, "stackTrace")
          /\ \A j \in DOMAIN thread.stackTrace :
                /\ Has(thread.stackTrace[j], "className")
                /\ Has(thread.stackTrace[j], "methodName")

RECURSIVE aggregate_skipzero(_, _)
\* the aggregation counting a depth only when it is not 0
aggregate_skipzero(methods_with_depth, agg) ==
    IF methods_with_depth = <<>> THEN agg
    ELSE LET method == Head(methods_with_depth)[1]
             depth == Head(methods_with_depth)[2]
         IN aggregate_skipzero(Tail(methods_with_depth),
                [mc |-> Put(agg.mc, method, Get(agg.mc, method) + 1),
                 ds |-> Put(agg.ds, method, Get(agg.ds, method) + depth),
                 dc |-> IF depth = 0 THEN agg.dc
                        ELSE Put(agg.dc, method, Get(agg.dc, method) + 1)])

RECURSIVE aggregate(_, _)
\* the loop of lines 139-142 over methods_with_depth
aggregate(methods_with_depth, agg) ==
    IF methods_with_depth = <<>> THEN agg
    ELSE LET method == Head(methods_with_depth)[1]
             depth == Head(methods_with_depth)[2]
         IN aggregate(Tail(methods_with_depth),
                [mc |-> Put(agg.mc, method, Get(agg.mc, method) + 1),
                 ds |-> Put(agg.ds, method, Get(agg.ds, method) + depth),
                 dc |-> Put(agg.dc, method, Get(agg.dc, method) + 1)])

\* x[2] of a record of combined_data, a quotient kept as <<sum, count>>:
\* a <= b
AvgLeq(a, b) == a[3][1] * b[3][2] <= b[3][1] * a[3][2]

\* the sort with reverse=True
insert_desc(sorted, x) ==
    LET k == Cardinality({i \in DOMAIN sorted : AvgLeq(x, sorted[i])})
    IN SubSeq(sorted, 1, k) \o <<x>> \o SubSeq(sorted, k + 1, Len(sorted))

\* where the stable ascending sort puts x among the records sorted so far
insert(sorted, x) ==
    LET k == Cardinality({i \in DOMAIN sorted : AvgLeq(sorted[i], x)})
    IN SubSeq(sorted, 1, k) \o <<x>> \o SubSeq(sorted, k + 1, Len(sorted))

RECURSIVE sort(_)
\* list.sort(key=lambda x: x[2], reverse=False)
sort(l) ==
    IF l = <<>> THEN <<>>
    ELSE insert(sort(SubSeq(l, 1, Len(l) - 1)), l[Len(l)])

\* lines 146-149: one record per item of method_counts, in its order
combine(mc, ds, dc) ==
    IF \E i \in DOMAIN mc : Get(dc, mc[i][1]) = 0
    THEN Raise("ZeroDivisionError")
    ELSE Ok([i \in DOMAIN mc |->
                <<mc[i][1], mc[i][2],
                  <<Get(ds, mc[i][1]), Get(dc, mc[i][1])>>>>])

\* Python round() of the quotient num / den: half to even
round(num, den) ==
    LET q == num \div den
        r2 == 2 * (num % den)
    IN IF r2 < den THEN q
       ELSE IF r2 > den THEN q + 1
       ELSE IF q % 2 = 0 THEN q ELSE q + 1

Header == <<"Method", "Count", "Average Depth">>

write_combined_report(data) ==
    <<Header>> \o [i \in DOMAIN data |->
                      <<data[i][1], data[i][2],
                        round(data[i][3][1], data[i][3][2])>>]

Init ==
    /\ pc = "NotStarted"
    /\ samples \in -1..MaxSamples
    /\ \E iv \in Intervals : min_interval = iv[1] /\ max_interval = iv[2]
    /\ package_filter \in {<<>>, A}
    /\ method_filter \in {None, Marker(B, bar), B \o bar}
    /\ sample = 0
    /\ method_counts = <<>>
    /\ depth_sums = <<>>
    /\ depth_counts = <<>>
    /\ combined_data = <<>>
    /\ report = <<>>
    /\ waits = 0
    /\ fetches = 0
    /\ fetched = "none"
    /\ exc = "none"
    /\ called = "none"
    /\ stack_trace = <<>>
    /\ thread_dump = Null
    /\ ret = Ok(<<>>)

config == <<samples, min_interval, max_interval, package_filter,
            method_filter>>

\* where the for loop of line 132 goes with the loop variable at s
LoopAt(s) == IF s < samples THEN "Wait" ELSE "Combine"

\* lines 127-132: the counters are created and the loop is entered
Start ==
    /\ pc = "NotStarted"
    /\ method_counts' = <<>>
    /\ depth_sums' = <<>>
    /\ depth_counts' = <<>>
    /\ sample' = 0
    /\ pc' = LoopAt(0)
    /\ UNCHANGED <<config, combined_data, report, waits, fetches, fetched,
                   exc, callVars>>

\* lines 133-135: random.uniform, then time.sleep, which refuses a
\* negative length
Wait ==
    /\ pc = "Wait"
    /\ \E interval \in
           (IF min_interval <= max_interval THEN min_interval
                                            ELSE max_interval) ..
           (IF min_interval <= max_interval THEN max_interval
                                            ELSE min_interval) :
          IF interval < 0
          THEN /\ pc' = "Raised"
               /\ exc' = "ValueError(sleep)"
               /\ UNCHANGED waits
          ELSE /\ pc' = "Fetch"
               /\ waits' = waits + 1
               /\ UNCHANGED exc
    /\ UNCHANGED <<config, sample, method_counts, depth_sums, depth_counts,
                   combined_data, report, fetches, fetched, callVars>>

\* lines 136-144: one fetch, and on a true thread_dump the extraction and
\* the aggregation
Fetch ==
    /\ pc = "Fetch"
    /\ \E response \in Responses :
          LET t_dump == get_thread_dump(response)
              methods_with_depth ==
                  extract_methods_with_depth(t_dump, package_filter,
                                             method_filter)
              agg == aggregate(methods_with_depth.val,
                               [mc |-> method_counts, ds |-> depth_sums,
                                dc |-> depth_counts])
          IN /\ fetches' = fetches + 1
             /\ fetched' = IF response.error # "none" THEN "failure"
                           ELSE IF WellFormed(response.json)
                                THEN "wellformed" ELSE "malformed"
             /\ IF ~Truthy(t_dump)
                THEN /\ sample' = sample + 1
                     /\ pc' = LoopAt(sample + 1)
                     /\ UNCHANGED <<method_counts, depth_sums, depth_counts,
                                    exc>>
                ELSE IF methods_with_depth.exc # "none"
                THEN /\ pc' = "Raised"
                     /\ exc' = methods_with_depth.exc
                     /\ UNCHANGED <<sample, method_counts, depth_sums,
                                    depth_counts>>
                ELSE /\ method_counts' = agg.mc
                     /\ depth_sums' = agg.ds
                     /\ depth_counts' = agg.dc
                     /\ sample' = sample + 1
                     /\ pc' = LoopAt(sample + 1)
                     /\ UNCHANGED exc
    /\ UNCHANGED <<config, combined_data, report, waits, callVars>>

\* lines 146-153: the records, sorted, are returned
Combine ==
    /\ pc = "Combine"
    /\ LET data == combine(method_counts, depth_sums, depth_counts) IN
          IF data.exc # "none"
          THEN /\ pc' = "Raised"
               /\ exc' = data.exc
               /\ UNCHANGED combined_data
          ELSE /\ pc' = "Finished"
               /\ combined_data' = sort(data.val)
               /\ UNCHANGED exc
    /\ UNCHANGED <<config, sample, method_counts, depth_sums, depth_counts,
                   report, waits, fetches, fetched, callVars>>

\* line 190
WriteReport ==
    /\ pc = "Finished"
    /\ report' = write_combined_report(combined_data)
    /\ pc' = "Reported"
    /\ UNCHANGED <<config, sample, method_counts, depth_sums, depth_counts,
                   combined_data, waits, fetches, fetched, exc, callVars>>

Next == Start \/ Wait \/ Fetch \/ Combine \/ WriteReport

Spec == Init /\ [][Next]_vars

-----------------------------------------------------------------------------
(* Properties *)

Range(f) == {f[i] : i \in DOMAIN f}

Rendered(frame) == frame.className \o <<".">> \o frame.methodName

AggregateUnchanged ==
    /\ method_counts' = method_counts
    /\ depth_sums' = depth_sums
    /\ depth_counts' = depth_counts

Returned == pc \in {"Finished", "Reported"}

\* C1: an iteration whose fetch fails leaves method_counts, depth_sums and
\* depth_counts as they were, and the loop goes on to the next iteration
C1_FailedFetchSkips ==
    [][(fetches' = fetches + 1 /\ fetched' = "failure")
          => /\ AggregateUnchanged
             /\ sample' = sample + 1
             /\ pc' = LoopAt(sample + 1)
             /\ exc' = "none"]_vars

\* a failed fetch met a non-empty aggregate and the loop went on
C1_Witness ==
    /\ fetched = "failure"
    /\ fetches >= 2
    /\ method_counts # <<>>
    /\ pc \in {"Wait", "Combine"}

\* C2: a fetched body that does not have the expected structure is skipped
\* like a transport failure: the aggregate is unchanged and the session
\* goes on to the next iteration, it never aborts
C2_MalformedSkipped ==
    [][(fetches' = fetches + 1 /\ fetched' = "malformed")
          => /\ AggregateUnchanged
             /\ pc' = LoopAt(sample + 1)
             /\ exc' = "none"]_vars

\* C3: the error of a method filter without its separator never arises
\* after the first wait or the first fetch
C3_FilterErrorBeforeSampling ==
    exc = "ValueError(split)" => (waits = 0 /\ fetches = 0)

InvalidConfig ==
    samples <= 0 \/ min_interval < 0 \/ max_interval < min_interval

\* C4: a run with a non-positive sample count or invalid interval bounds
\* does no wait and no fetch, returns no rows and writes no report
C4_InvalidConfigFatal ==
    InvalidConfig
        => /\ waits = 0
           /\ fetches = 0
           /\ ~Returned
           /\ report = <<>>

\* C5: every method of the aggregate has depth_counts = method_counts >= 1;
\* every returned record has count >= 1 and average depth
\* depth_sums / count, and the division never fails
C5_CountsAgree ==
    /\ Keys(depth_counts) = Keys(method_counts)
    /\ Keys(depth_sums) = Keys(method_counts)
    /\ \A m \in Keys(method_counts) :
          /\ Get(depth_counts, m) = Get(method_counts, m)
          /\ Get(method_counts, m) >= 1
    /\ exc # "ZeroDivisionError"
    /\ Returned =>
          \A i \in DOMAIN combined_data :
             LET rec == combined_data[i] IN
             /\ rec[2] >= 1
             /\ rec[2] = Get(method_counts, rec[1])
             /\ rec[3] = <<Get(depth_sums, rec[1]), rec[2]>>

\* a record observed twice, at depths that are not both 0, was returned
C5_Witness ==
    /\ pc = "Finished"
    /\ \E i \in DOMAIN combined_data :
          combined_data[i][2] >= 2 /\ combined_data[i][3][1] >= 1

ValidConfig ==
    /\ ~InvalidConfig
    /\ method_filter \in {None, <<>>} \cup WellFormedMarkers

\* C6: whatever the fetches give, a run with a valid configuration never
\* ends otherwise than by returning, after exactly `samples` iterations of
\* one wait followed by one fetch
C6_AlwaysFinishes ==
    ValidConfig
        => /\ pc # "Raised"
           /\ waits - fetches \in {0, 1}
           /\ fetches <= samples
           /\ Returned => (waits = samples /\ fetches = samples)

\* C7: the returned records are non-decreasing in average depth and are
\* exactly the aggregated methods, one record each
C7_SortedByAverageDepth ==
    Returned =>
       /\ \A i \in 1..(Len(combined_data) - 1) :
             AvgLeq(combined_data[i], combined_data[i + 1])
       /\ Len(combined_data) = Len(method_counts)
       /\ {combined_data[i][1] : i \in DOMAIN combined_data}
             = Keys(method_counts)
       /\ \A i, j \in DOMAIN combined_data :
             combined_data[i][1] = combined_data[j][1] => i = j

\* the sort moved a record: the first aggregated method is not returned
\* first, and the averages differ
C7_Witness ==
    /\ pc = "Finished"
    /\ Len(combined_data) >= 2
    /\ combined_data[1][1] # method_counts[1][1]
    /\ ~AvgLeq(combined_data[Len(combined_data)], combined_data[1])

MatchIndexes(st_trace, c, m) ==
    {i \in DOMAIN st_trace :
        st_trace[i].className = c /\ st_trace[i].methodName = m}

\* stack[i:] for the first index i that matches, empty when none does
FilterReference(st_trace, c, m) ==
    LET hits == MatchIndexes(st_trace, c, m) IN
    IF hits = {} THEN <<>>
    ELSE SubSeq(st_trace, CHOOSE i \in hits : \A j \in hits : i <= j,
                Len(st_trace))

ClassNames == {A, B, C}

MethodNames == {foo, bar, baz}

\* C8: filter_stack_trace returns the stack unchanged without a marker,
\* stack[i:] for the first frame i equal to the marker, and the empty
\* sequence when no frame equals the marker
C8_FilterAgreesWithReference ==
    called = "filter_stack_trace" =>
       /\ method_filter \in {None, <<>>} => ret = Ok(stack_trace)
       /\ \A c \in ClassNames, m \in MethodNames :
             method_filter = Marker(c, m)
                => ret = Ok(FilterReference(stack_trace, c, m))

\* the marker occurs twice and not at index 0
C8_Witness ==
    /\ called = "filter_stack_trace"
    /\ method_filter = Marker(B, bar)
    /\ Cardinality(MatchIndexes(stack_trace, B, bar)) = 2
    /\ 1 \notin MatchIndexes(stack_trace, B, bar)
    /\ Len(ret.val) = 2

RunnableOnly(t_dump) ==
    Dump(SelectSeq(t_dump.threads, LAMBDA t : t.threadState = RUNNABLE))

\* C9: every tuple of extract_methods_with_depth has state RUNNABLE and
\* renders a frame of a RUNNABLE thread; the threads in another state do
\* not change the output, and a dump without a RUNNABLE thread yields none
C9_OnlyRunnable ==
    called = "extract_methods_with_depth" =>
       /\ \A i \in DOMAIN ret.val :
             /\ ret.val[i][3] = RUNNABLE
             /\ \E t \in Range(thread_dump.threads) :
                   /\ t.threadState = RUNNABLE
                   /\ \E f \in Range(t.stackTrace) :
                         Rendered(f) = ret.val[i][1]
       /\ ret = extract_methods_with_depth(RunnableOnly(thread_dump),
                                           package_filter, method_filter)
       /\ (\A t \in Range(thread_dump.threads) : t.threadState # RUNNABLE)
             => ret = Ok(<<>>)

\* a thread in another state holds a frame that passes the filters, next
\* to a RUNNABLE thread that contributes
C9_Witness ==
    /\ called = "extract_methods_with_depth"
    /\ ret.val # <<>>
    /\ \E t \in Range(thread_dump.threads) :
          /\ t.threadState # RUNNABLE
          /\ \E f \in Range(t.stackTrace) :
                startswith(f.className, package_filter)
    /\ method_filter = None

ScenarioStack == <<Frame(A, foo), Frame(B, bar), Frame(A, baz)>>

ScenarioB ==
    /\ called = "extract_methods_with_depth"
    /\ thread_dump = Dump(<<Thread(RUNNABLE, ScenarioStack)>>)
    /\ package_filter = A
    /\ method_filter = Marker(B, bar)

\* C10 as stated: scenario B yields an empty result
C10_ScenarioBEmpty == ScenarioB => ret = Ok(<<>>)

\* C10: in scenario B the reversed stack is cut to start at B.bar, and the
\* frame A.foo behind it is yielded at depth 1
C10_ScenarioBYieldsFoo ==
    ScenarioB =>
       /\ filter_stack_trace(reversed(ScenarioStack), method_filter)
             = Ok(<<Frame(B, bar), Frame(A, foo)>>)
       /\ ret = Ok(<< <<A \o <<".">> \o foo, 1, RUNNABLE>> >>)

C10_Witness == ScenarioB /\ Len(ret.val) = 1

====
